---- MODULE Spec2Model ----
(***************************************************************************)
(* Rate gate of the PDF accessibility pipeline: the dual-limit admission   *)
(* control of adobe-autotag-container/rate_limiter.py (in-flight cap and   *)
(* per-minute request cap kept in one DynamoDB table), its scoped forms,   *)
(* and the in-flight reconciler lambda that repairs the counter.           *)
(*                                                                         *)
(* A DynamoDB attribute that may be absent is a set holding at most one    *)
(* value: {} is "attribute_not_exists", {n} is the stored number n.        *)
(* Time is in whole seconds; sleeps and jitter are rounded to seconds.     *)
(***************************************************************************)
EXTENDS Integers, Sequences, FiniteSets, TLC

\* ---------------------------------------------------------------- bounds
NumWorkers == 2
MaxTime == 300
MaxRetriesBound == 2
MaxBatch == 2

\* ------------------------------------------------------ program constants
SecondsPerMinute == 60
DefaultMaxWait == 300
RpmTtlSeconds == 120
DEFAULT_MAX_DRIFT == 5
StaleSeconds == 900
MAX_RETRIES_DEFAULT == 3
DEFAULT_MAX_IN_FLIGHT == 10
DEFAULT_MAX_EXECUTIONS == 50
LowLoadInFlight == 3
LowLoadExecutions == 10
QueueListExtra == 10

\* The clock is sampled twice over the modelled time.
TickSeconds == MaxTime \div 2

\* Each worker is one task that makes one rate-limited API call.
Workers == 1..NumWorkers
Windows == 0..(MaxTime \div SecondsPerMinute)

\* Values the SSM parameters adobe-api-max-in-flight and adobe-api-rpm take.
MaxInFlightChoices == {1, 2}
MaxRpmChoices == {1, 2}
\* max_wait_seconds a direct caller of acquire_slot passes.
MaxWaitChoices == {0, 20}
\* filename a direct caller passes ("" stands for None) and its api_type.
NoFile == ""
Filenames == {"a.pdf"}
ApiTypes == {"autotag"}
\* api_type the scoped forms are entered with (it only reaches the log).
ScopedApiTypes == {"autotag"}
FileArgs == {<<NoFile, "adobe_api">>} \cup (Filenames \X ApiTypes)

VARIABLES
    now,              \* wall clock, seconds since the start of minute 0
    max_in_flight,    \* get_max_in_flight()
    max_rpm,          \* get_max_rpm()
    in_flight,        \* attribute in_flight of row "adobe_api_in_flight"
    request_count,    \* attribute request_count of each rpm_window row
    ttl,              \* attribute ttl of each rpm_window row
    pc,               \* where each worker is in its scope
    form,             \* the form the worker entered the rate gate by
    attempt,          \* acquire_slot: attempt
    start_time,       \* acquire_slot: start_time
    max_wait_seconds, \* acquire_slot: max_wait_seconds
    wake_at,          \* end of the time.sleep the worker is in
    acquired,         \* what acquire_slot returned
    filename,         \* acquire_slot / release_slot: filename
    api_type,         \* acquire_slot / release_slot: api_type
    untrack_item,     \* _untrack_file_in_flight: response['Items'][0]
    files,            \* the file_ tracking rows, by the worker that wrote them
    passed_a,         \* Phase A updates of this call that succeeded
    slot,             \* increments minus decrements of in_flight by this call
    releases,         \* release_slot calls made for this scope
    rec_pc,           \* where the reconciler's handler is
    counter_value,    \* handler: counter_value
    tracked_files,    \* handler: tracked_files
    reset_to,         \* handler: reset_to ({} stands for None)
    action_taken,     \* handler: action_taken
    running_ecs,      \* handler: running_ecs
    running_sfn,      \* handler: running_sfn
    resets_published, \* ReconciliationResets points put by this invocation
    max_retries,      \* get_max_retries()
    objects,          \* the item's S3 object under each prefix, if any
    executing,        \* a pipeline execution of the pdf/ object is running
    failures,         \* failure events the failure controller was given
    failure_records,  \* rows put in FAILURE_TABLE
    fc_pc,            \* where pdf-failure-cleanup's handler is
    retry_count,      \* pdf-failure-cleanup handler: retry_count
    action,           \* pdf-failure-cleanup handler: action
    sched_pc,         \* where move_file_to_pdf_folder is
    source_prefix,    \* move_file_to_pdf_folder: source_prefix
    backoff_row,      \* attribute backoff_until of row "global_backoff_until"
    queue_config,     \* pdf-retry-processor: get_config()
    bucket,           \* the objects under retry/, queue/ and pdf/, by key
    sched,            \* the locals of each pdf-retry-processor invocation
    window_id,        \* acquire_slot: window_id of the Phase B that failed
    max_drift,        \* in-flight-reconciler: the parameter max_drift
    widget,           \* the locals of in-flight-files-widget's lambda_handler
    temp_objects      \* the objects under the item's temp/ folder

vars == <<now, max_in_flight, max_rpm, in_flight, request_count, ttl, pc, form,
          attempt, start_time, max_wait_seconds, wake_at, acquired, filename,
          api_type, untrack_item, files, passed_a, slot, releases, rec_pc,
          counter_value, tracked_files, reset_to, action_taken, running_ecs,
          running_sfn, resets_published, max_retries, objects, executing,
          failures, failure_records, fc_pc, retry_count, action, sched_pc,
          source_prefix, backoff_row, queue_config, bucket, sched, window_id,
          max_drift, widget, temp_objects>>

counters == <<in_flight, request_count, ttl>>
store == <<counters, files>>
config == <<max_in_flight, max_rpm>>
args == <<form, start_time, max_wait_seconds, filename, api_type>>
ghosts == <<passed_a, slot, releases>>
locals == <<attempt, args, wake_at, acquired, untrack_item, ghosts, window_id>>
pipeline == <<temp_objects, max_retries, objects, executing, failures, failure_records,
              fc_pc, retry_count, action, sched_pc, source_prefix>>
intake == <<backoff_row, queue_config, bucket, sched>>
observed == <<running_ecs, running_sfn>>
reconciler == <<rec_pc, counter_value, tracked_files, reset_to, action_taken,
                observed, resets_published, max_drift>>

\* ------------------------------------------------- DynamoDB expressions
AttributeNotExists(attr) == attr = {}

Value(attr) == CHOOSE v \in attr : TRUE

IfNotExists(attr, default) == IF attr = {} THEN default ELSE Value(attr)

Min(a, b) == IF a <= b THEN a ELSE b

Max(a, b) == IF a >= b THEN a ELSE b

\* ------------------------------------------------------------ callers
\* The ways a worker uses the rate gate: acquire_slot and release_slot called
\* directly, the generator context manager, or the context manager class.
Forms == {"direct", "rate_limited_call", "RateLimitedAPICall"}

\* Variant: the window key without the minute, strftime('%Y%m%d_%H').
CurrentHourWindow(t) == t \div (60 * SecondsPerMinute)

\* rpm_window_combined_YYYYMMDD_HHMM of the time t: one key per UTC minute.
CurrentMinuteWindow(t) == t \div SecondsPerMinute

\* The locals of a lambda_handler that is not running.
NoWidget == [pc |-> "idle", actual_file_count |-> 0, raw_counter_value |-> 0]

\* No worker has started, no window row is there, the reconciler is not
\* running.
StartCallers ==
    /\ now = 0
    /\ request_count = [m \in Windows |-> {}]
    /\ ttl = [m \in Windows |-> 0]
    /\ pc = [w \in Workers |-> "idle"]
    /\ form = [w \in Workers |-> "direct"]
    /\ attempt = [w \in Workers |-> 0]
    /\ start_time = [w \in Workers |-> 0]
    /\ max_wait_seconds = [w \in Workers |-> DefaultMaxWait]
    /\ wake_at = [w \in Workers |-> 0]
    /\ acquired = [w \in Workers |-> FALSE]
    /\ filename = [w \in Workers |-> NoFile]
    /\ api_type = [w \in Workers |-> "adobe_api"]
    /\ untrack_item = [w \in Workers |-> {}]
    /\ passed_a = [w \in Workers |-> 0]
    /\ slot = [w \in Workers |-> 0]
    /\ releases = [w \in Workers |-> 0]
    /\ rec_pc = "idle"
    /\ counter_value = 0
    /\ tracked_files = 0
    /\ reset_to = {}
    /\ action_taken = "NONE"
    /\ running_ecs = -1
    /\ running_sfn = -1
    /\ resets_published = 0
    /\ window_id = [w \in Workers |-> {}]
    /\ widget = NoWidget

\* The prefixes an item's object is kept under: queue/ and retry/ hold what
\* waits for admission, pdf/ what is being processed, failed/ what has used
\* up its retries.
Areas == {"queue", "retry", "pdf", "failed"}

\* An object as uploaded: no retry-count and no max-retries-exceeded metadata.
NewObject == [retry_count |-> {}, exceeded |-> FALSE]

\* The item waits under the prefix a; nothing has failed, no handler runs.
StartItems(a) ==
    /\ objects = [b \in Areas |-> IF b = a THEN {NewObject} ELSE {}]
    /\ temp_objects = 0
    /\ executing = FALSE
    /\ failures = 0
    /\ failure_records = 0
    /\ fc_pc = "idle"
    /\ retry_count = 0
    /\ action = "NONE"
    /\ sched_pc = "idle"
    /\ source_prefix = "queue"

\* pdf-retry-processor invocations that may overlap.
Schedulers == {1, 2}

\* Sub-paths of the waiting files, in the order list_objects_v2 returns them.
Paths == <<"a/X.pdf", "a/Y.pdf">>

PathSet == { Paths[n] : n \in DOMAIN Paths }

\* The prefixes the scheduler reads and writes, and the keys under them.
SchedulerPrefixes == {"retry", "queue", "pdf"}

Keys == SchedulerPrefixes \X PathSet

\* The locals of an invocation that has not started.
NotInvoked ==
    [pc |-> "idle", backoff_remaining |-> 0, in_flight |-> 0,
     running_executions |-> 0, files_per_batch |-> 0, source_prefix |-> "retry",
     list |-> <<>>, last_modified |-> [path \in PathSet |-> 0],
     attempted |-> <<>>, processed_files |-> {}, copied |-> 0,
     action |-> "NONE", reason |-> <<"", 0>>]

\* No backoff row, the default thresholds, an empty bucket, no invocation.
StartIntake ==
    /\ backoff_row = {}
    /\ queue_config = [max_in_flight |-> DEFAULT_MAX_IN_FLIGHT,
                       max_executions |-> DEFAULT_MAX_EXECUTIONS,
                       batch_size |-> 1, batch_size_low |-> 1]
    /\ bucket = [k \in Keys |-> {}]
    /\ sched = [i \in Schedulers |-> NotInvoked]

\* The table is empty, no worker has started, the reconciler is not running.
Start ==
    /\ in_flight = {}
    /\ files = [w \in Workers |-> {}]
    /\ max_retries = MAX_RETRIES_DEFAULT
    /\ StartItems("queue")
    /\ StartIntake
    /\ max_drift = DEFAULT_MAX_DRIFT
    /\ StartCallers

Init ==
    /\ max_in_flight \in MaxInFlightChoices
    /\ max_rpm \in MaxRpmChoices
    /\ Start

\* ------------------------------------------------------- acquire_slot
\* Variant: in_flight <= :max.
PhaseAConditionInclusive ==
    AttributeNotExists(in_flight) \/ Value(in_flight) <= max_in_flight

\* Variant: only attribute_not_exists(in_flight).
PhaseAConditionAbsentOnly == AttributeNotExists(in_flight)

\* ConditionExpression of Phase A.
PhaseACondition == AttributeNotExists(in_flight) \/ Value(in_flight) < max_in_flight

\* wait_time = min(2 + (attempt * 0.5), 10) + random.uniform(0, 1): the least
\* whole number of seconds the sleep lasts; the jitter only lengthens it.
BackoffWait(n) == Min(2 + (n \div 2), 10)

\* Variant: if_not_exists(in_flight, :one) + :inc.
IncrementInFlightFromOne == {IfNotExists(in_flight, 1) + 1}

\* SET in_flight = if_not_exists(in_flight, :zero) + :inc
IncrementInFlight == {IfNotExists(in_flight, 0) + 1}

\* Attempt n of the loop body up to the Phase A update: the in-flight slot,
\* or on ConditionalCheckFailedException the backoff sleep.
PhaseA(w, n) ==
    /\ attempt' = [attempt EXCEPT ![w] = n]
    /\ IF PhaseACondition
       THEN /\ in_flight' = IncrementInFlight
            /\ slot' = [slot EXCEPT ![w] = @ + 1]
            /\ passed_a' = [passed_a EXCEPT ![w] = Min(@ + 1, n)]
            /\ pc' = [pc EXCEPT ![w] = "phaseB"]
            /\ wake_at' = [wake_at EXCEPT ![w] = 0]
       ELSE /\ wake_at' = [wake_at EXCEPT ![w] = now + BackoffWait(n)]
            /\ pc' = [pc EXCEPT ![w] = "backoff"]
            /\ UNCHANGED <<in_flight, slot, passed_a>>
    /\ window_id' = [window_id EXCEPT ![w] = {}]
    /\ UNCHANGED <<now, config, widget, intake, pipeline, request_count, ttl, files, acquired,
                   untrack_item, releases, reconciler>>

\* The loop test fails: "Failed to acquire slot", return False.
TimedOut(w) ==
    /\ acquired' = [acquired EXCEPT ![w] = FALSE]
    /\ wake_at' = [wake_at EXCEPT ![w] = 0]
    /\ window_id' = [window_id EXCEPT ![w] = {}]
    /\ pc' = [pc EXCEPT ![w] = "body"]
    /\ UNCHANGED <<now, config, widget, intake, pipeline, store, attempt, untrack_item, ghosts,
                   reconciler>>

\* while (time.time() - start_time) < max_wait_seconds, at the time t of a
\* call started at the time t0 with max_wait_seconds mw.
LoopCondition(t, t0, mw) == (t - t0) < mw

\* Entry of acquire_slot(api_type, mw, fn): start_time is taken, attempt = 0,
\* and after the initial jitter (under a second) the loop is tested for the
\* first time.
AcquireSlot(w, ty, mw, fn) ==
    /\ pc[w] = "idle"
    /\ start_time' = [start_time EXCEPT ![w] = now]
    /\ max_wait_seconds' = [max_wait_seconds EXCEPT ![w] = mw]
    /\ filename' = [filename EXCEPT ![w] = fn]
    /\ api_type' = [api_type EXCEPT ![w] = ty]
    /\ IF LoopCondition(now, now, mw) THEN PhaseA(w, 1) ELSE TimedOut(w)

\* acquire_slot called by the caller itself, with a max_wait of its choice.
DirectAcquire(w) ==
    /\ form' = [form EXCEPT ![w] = "direct"]
    /\ \E mw \in MaxWaitChoices, fa \in FileArgs : AcquireSlot(w, fa[2], mw, fa[1])

\* rate_limited_call: acquired = acquire_slot(api_type).
EnterRateLimitedCall(w) ==
    /\ form' = [form EXCEPT ![w] = "rate_limited_call"]
    /\ \E ty \in ScopedApiTypes : AcquireSlot(w, ty, DefaultMaxWait, NoFile)

\* RateLimitedAPICall.__enter__: self.slot_acquired = acquire_slot(...).
EnterRateLimitedAPICall(w) ==
    /\ form' = [form EXCEPT ![w] = "RateLimitedAPICall"]
    /\ \E ty \in ScopedApiTypes : AcquireSlot(w, ty, DefaultMaxWait, NoFile)

\* time.sleep(wait_time) is over (it lasts at least wait_time) and continue
\* takes the worker to the loop test: the next attempt, or the timeout.
Retry(w) ==
    /\ pc[w] \in {"backoff", "wait_minute"}
    /\ now >= wake_at[w]
    /\ IF LoopCondition(now, start_time[w], max_wait_seconds[w])
       THEN PhaseA(w, attempt[w] + 1)
       ELSE TimedOut(w)
    /\ UNCHANGED args

\* Variant: #rc <= :max.
PhaseBConditionInclusive(m) ==
    AttributeNotExists(request_count[m]) \/ Value(request_count[m]) <= max_rpm

\* ConditionExpression of Phase B on the row of the window m.
PhaseBCondition(m) ==
    AttributeNotExists(request_count[m]) \/ Value(request_count[m]) < max_rpm

\* _track_file_in_flight: put_item of a row with a fresh id.
TrackFileInFlight(w) ==
    files' = [files EXCEPT ![w] = {[filename   |-> filename[w],
                                    api_type   |-> api_type[w],
                                    started_at |-> now,
                                    released   |-> FALSE,
                                    stale_cleanup |-> FALSE]}]

\* Phase B: the RPM slot of the current minute window, and on success the
\* tracking row when a filename was given.
PhaseB(w) ==
    /\ pc[w] = "phaseB"
    /\ LET window == CurrentMinuteWindow(now) IN
       IF PhaseBCondition(window)
       THEN /\ request_count' = [request_count EXCEPT ![window] =
                                    {IfNotExists(@, 0) + 1}]
            /\ ttl' = [ttl EXCEPT ![window] = now + RpmTtlSeconds]
            /\ IF filename[w] # NoFile
               THEN TrackFileInFlight(w)
               ELSE UNCHANGED files
            /\ acquired' = [acquired EXCEPT ![w] = TRUE]
            /\ pc' = [pc EXCEPT ![w] = "body"]
            /\ UNCHANGED window_id
       ELSE /\ pc' = [pc EXCEPT ![w] = "compensate"]
            /\ window_id' = [window_id EXCEPT ![w] = {window}]
            /\ UNCHANGED <<request_count, ttl, files, acquired>>
    /\ UNCHANGED <<now, config, widget, intake, pipeline, in_flight, attempt, args, wake_at,
                   untrack_item, ghosts, reconciler>>

\* Variant: the decrement written as an increment.
DecrementInFlightWrongSign == {IfNotExists(in_flight, 1) + 1}

\* SET in_flight = if_not_exists(in_flight, :one) - :dec
DecrementInFlight == {IfNotExists(in_flight, 1) - 1}

\* wait_time = min(seconds_until_next_minute + 1, 15) + random.uniform(0, 2)
\* at the time t, without the jitter.
MinuteWait(t) == Min((SecondsPerMinute - (t % SecondsPerMinute)) + 1, 15)

\* Variant: the in-flight slot is not given back before the wait.
CompensateForgets(w) ==
    /\ pc[w] = "compensate"
    /\ wake_at' = [wake_at EXCEPT ![w] = now + MinuteWait(now)]
    /\ pc' = [pc EXCEPT ![w] = "wait_minute"]
    /\ UNCHANGED <<now, config, widget, window_id, intake, pipeline, store, attempt, args, acquired, untrack_item,
                   ghosts, reconciler>>

\* _release_in_flight_only after ConditionalCheckFailedException in Phase B,
\* then the wait for the next minute window.
Compensate(w) ==
    /\ pc[w] = "compensate"
    /\ in_flight' = DecrementInFlight
    /\ slot' = [slot EXCEPT ![w] = @ - 1]
    /\ wake_at' = [wake_at EXCEPT ![w] = now + MinuteWait(now)]
    /\ pc' = [pc EXCEPT ![w] = "wait_minute"]
    /\ UNCHANGED <<now, config, widget, window_id, intake, pipeline, request_count, ttl, files, attempt, args,
                   acquired, untrack_item, passed_a, releases, reconciler>>

\* ------------------------------------------------------- release_slot
\* Variant: release_slot returns without its update_item.
ReleaseSlotKeeps(w) ==
    /\ releases' = [releases EXCEPT ![w] = @ + 1]
    /\ UNCHANGED <<store, passed_a, slot>>

\* The update of release_slot: the in-flight counter is decremented.
ReleaseSlot(w) ==
    /\ in_flight' = DecrementInFlight
    /\ slot' = [slot EXCEPT ![w] = @ - 1]
    /\ releases' = [releases EXCEPT ![w] = @ + 1]
    /\ UNCHANGED <<request_count, ttl, files, passed_a>>

NoRelease(w) == UNCHANGED <<store, ghosts>>

\* The locals of the acquire_slot call are kept while its caller runs the
\* guarded body and are gone once the caller moves on.
AcquireLocalsGone(w) ==
    /\ attempt' = [attempt EXCEPT ![w] = 0]
    /\ start_time' = [start_time EXCEPT ![w] = 0]
    /\ max_wait_seconds' = [max_wait_seconds EXCEPT ![w] = DefaultMaxWait]

\* How the guarded body can end.
BodyEnds == {"return", "raise"}

\* Variant: no try/finally around the yield, the release is skipped on raise.
ExitRateLimitedCallNoFinally(w, how) ==
    /\ form[w] = "rate_limited_call"
    /\ pc[w] = "body"
    /\ IF acquired[w] /\ how = "return" THEN ReleaseSlot(w) ELSE NoRelease(w)
    /\ pc' = [pc EXCEPT ![w] = "exited"]
    /\ AcquireLocalsGone(w)
    /\ UNCHANGED <<now, config, widget, window_id, intake, pipeline, form, filename, api_type, wake_at, acquired,
                   untrack_item, reconciler>>

\* rate_limited_call: the body at the yield ends, by return or by raise, and
\* finally: if acquired: release_slot(api_type).
ExitRateLimitedCall(w, how) ==
    /\ form[w] = "rate_limited_call"
    /\ pc[w] = "body"
    /\ IF acquired[w] THEN ReleaseSlot(w) ELSE NoRelease(w)
    /\ pc' = [pc EXCEPT ![w] = "exited"]
    /\ AcquireLocalsGone(w)
    /\ UNCHANGED <<now, config, widget, window_id, intake, pipeline, form, filename, api_type, wake_at, acquired,
                   untrack_item, reconciler>>

\* RateLimitedAPICall.__exit__, reached by return or by raise of the body:
\* if self.slot_acquired: release_slot(self.api_type).
ExitRateLimitedAPICall(w, how) ==
    /\ form[w] = "RateLimitedAPICall"
    /\ pc[w] = "body"
    /\ IF acquired[w] THEN ReleaseSlot(w) ELSE NoRelease(w)
    /\ pc' = [pc EXCEPT ![w] = "exited"]
    /\ AcquireLocalsGone(w)
    /\ UNCHANGED <<now, config, widget, window_id, intake, pipeline, form, filename, api_type, wake_at, acquired,
                   untrack_item, reconciler>>

\* A direct caller that got a slot calls release_slot(api_type, filename)
\* once, after the call; with a filename the row is then untracked.
DirectRelease(w) ==
    /\ form[w] = "direct"
    /\ pc[w] = "body"
    /\ IF acquired[w] THEN ReleaseSlot(w) ELSE NoRelease(w)
    /\ pc' = [pc EXCEPT ![w] =
                 IF acquired[w] /\ filename[w] # NoFile THEN "untrack" ELSE "exited"]
    /\ AcquireLocalsGone(w)
    /\ UNCHANGED <<now, config, widget, window_id, intake, pipeline, form, filename, api_type, wake_at, acquired,
                   untrack_item, reconciler>>

\* FilterExpression of the scan in _untrack_file_in_flight(filename, api_type).
UntrackMatches(fn, ty) ==
    { r \in Workers : /\ files[r] # {}
                      /\ Value(files[r]).filename = fn
                      /\ Value(files[r]).api_type = ty
                      /\ ~Value(files[r]).released }

\* _untrack_file_in_flight: the scan; Items[0] is any one of the matches.
UntrackScan(w) ==
    /\ pc[w] = "untrack"
    /\ LET items == UntrackMatches(filename[w], api_type[w]) IN
       IF items # {}
       THEN /\ \E r \in items : untrack_item' = [untrack_item EXCEPT ![w] = {r}]
            /\ pc' = [pc EXCEPT ![w] = "untrack_mark"]
       ELSE /\ pc' = [pc EXCEPT ![w] = "exited"]
            /\ UNCHANGED untrack_item
    /\ UNCHANGED <<now, config, widget, window_id, intake, pipeline, store, attempt, args, wake_at, acquired,
                   ghosts, reconciler>>

\* _untrack_file_in_flight: SET released = :released on the item found.
UntrackMark(w) ==
    /\ pc[w] = "untrack_mark"
    /\ LET r == Value(untrack_item[w]) IN
       files' = [files EXCEPT ![r] = {[Value(@) EXCEPT !.released = TRUE]}]
    /\ untrack_item' = [untrack_item EXCEPT ![w] = {}]
    /\ pc' = [pc EXCEPT ![w] = "exited"]
    /\ UNCHANGED <<now, config, widget, window_id, intake, pipeline, counters, attempt, args, wake_at, acquired,
                   ghosts, reconciler>>

\* ------------------------------------------------------- store errors
\* Variant: the in-flight slot is kept when the error is re-raised.
PhaseBErrorKeepsSlot(w) ==
    /\ pc[w] = "phaseB"
    /\ pc' = [pc EXCEPT ![w] = "raised"]
    /\ AcquireLocalsGone(w)
    /\ UNCHANGED <<now, config, widget, window_id, intake, pipeline, store, form, filename,
                   api_type, wake_at, acquired, untrack_item, ghosts, reconciler>>

\* The Phase B update raises a ClientError other than
\* ConditionalCheckFailedException: _release_in_flight_only(table), then
\* raise. The error leaves acquire_slot, and rate_limited_call or __enter__
\* with it, before acquired is assigned.
PhaseBError(w) ==
    /\ pc[w] = "phaseB"
    /\ in_flight' = DecrementInFlight
    /\ slot' = [slot EXCEPT ![w] = @ - 1]
    /\ pc' = [pc EXCEPT ![w] = "raised"]
    /\ AcquireLocalsGone(w)
    /\ UNCHANGED <<now, config, widget, window_id, intake, pipeline, request_count, ttl, files,
                   form, filename, api_type, wake_at, acquired, untrack_item,
                   passed_a, releases, reconciler>>

\* Variant: the counter is lowered although release_slot returns False.
ReleaseSlotFailsAfterUpdate(w) ==
    /\ pc[w] = "body"
    /\ acquired[w]
    /\ ReleaseSlot(w)
    /\ pc' = [pc EXCEPT ![w] = "release_failed"]
    /\ AcquireLocalsGone(w)
    /\ UNCHANGED <<now, config, widget, window_id, intake, pipeline, form, filename, api_type,
                   wake_at, acquired, untrack_item, reconciler>>

\* release_slot, called by any of the forms for a slot that was acquired:
\* its update_item raises ClientError, the except branch logs and returns
\* False; _untrack_file_in_flight is not reached.
ReleaseSlotFails(w) ==
    /\ pc[w] = "body"
    /\ acquired[w]
    /\ releases' = [releases EXCEPT ![w] = @ + 1]
    /\ pc' = [pc EXCEPT ![w] = "release_failed"]
    /\ AcquireLocalsGone(w)
    /\ UNCHANGED <<now, config, widget, window_id, intake, pipeline, store, form, filename,
                   api_type, wake_at, acquired, untrack_item, passed_a, slot,
                   reconciler>>

\* _untrack_file_in_flight: its scan or its update_item raises ClientError,
\* the except branch logs a warning; release_slot returns True.
UntrackFails(w) ==
    /\ pc[w] \in {"untrack", "untrack_mark"}
    /\ untrack_item' = [untrack_item EXCEPT ![w] = {}]
    /\ pc' = [pc EXCEPT ![w] = "exited"]
    /\ UNCHANGED <<now, config, widget, window_id, intake, pipeline, store, attempt, args,
                   wake_at, acquired, ghosts, reconciler>>

StoreError(w) ==
    \/ PhaseBError(w)
    \/ ReleaseSlotFails(w)
    \/ UntrackFails(w)

\* ------------------------------------------------------------ the clock
\* Time passes by d seconds. DynamoDB removes the window rows whose ttl has
\* passed; no reader looks at a window again once its minute is over, so
\* the rows are taken to go as soon as they expire.
TickUntil(d, horizon) ==
    /\ now + d <= horizon
    /\ now' = now + d
    /\ request_count' = [m \in Windows |->
                            IF ttl[m] <= now + d THEN {} ELSE request_count[m]]
    /\ ttl' = [m \in Windows |-> IF ttl[m] <= now + d THEN 0 ELSE ttl[m]]
    /\ UNCHANGED <<config, widget, intake, pipeline, in_flight, files, pc, locals, reconciler>>

Tick(d) == TickUntil(d, MaxTime)

\* The clock sampled every half minute over the first minutes.
FineTick == TickUntil(SecondsPerMinute \div 2, 2 * SecondsPerMinute)

\* ------------------------------------------- a caller that releases twice
\* release_slot(api_type, filename) called a second time for one acquisition.
ReleaseAgain(w) ==
    /\ form[w] = "direct"
    /\ pc[w] = "exited"
    /\ acquired[w]
    /\ releases[w] = 1
    /\ ReleaseSlot(w)
    /\ pc' = [pc EXCEPT ![w] = IF filename[w] # NoFile THEN "untrack" ELSE "exited"]
    /\ UNCHANGED <<now, config, widget, window_id, intake, pipeline, attempt, args, wake_at, acquired, untrack_item,
                   reconciler>>

\* ------------------------------------------------- in-flight reconciler
\* Values of /pdf-processing/reconciler-max-drift.
MaxDriftChoices == {0, 1, DEFAULT_MAX_DRIFT}

\* Workers whose task is running.
LiveWorkers == { w \in Workers : pc[w] \notin {"idle", "exited", "dead"} }

\* get_running_ecs_tasks(): -1 when unknown, else the tasks of the cluster,
\* the workers among them.
RunningEcsChoices ==
    {-1} \cup { n \in 0..NumWorkers : n >= Cardinality(LiveWorkers) }

\* get_running_step_functions(): -1 when unknown, else the executions that
\* are running; a running worker belongs to one.
RunningSfnChoices ==
    {-1} \cup { n \in 0..1 : LiveWorkers # {} => n >= 1 }

\* get_tracked_files_count(): the rows without the released attribute.
TrackedFilesCount ==
    Cardinality({ r \in Workers : files[r] # {} /\ ~Value(files[r]).released })

\* Variant: the drift rule leaves the allowed drift in the counter.
DecideDriftKept(counter, tracked, ecs, sfn, drift) ==
    IF counter > 0
    THEN IF ecs = 0 /\ sfn = 0
         THEN [reset_to |-> {0}, action |-> "RESET_TO_ZERO"]
         ELSE IF counter > tracked + drift
              THEN [reset_to |-> {tracked + drift},
                    action |-> "RESET_TO_TRACKED"]
              ELSE [reset_to |-> {}, action |-> "NONE"]
    ELSE [reset_to |-> {}, action |-> "NONE"]

\* Variant: the drift rule is tested before the no-active-work rule.
DecideDriftFirst(counter, tracked, ecs, sfn, drift) ==
    IF counter > 0
    THEN IF counter > tracked + drift
         THEN [reset_to |-> {Max(0, tracked)}, action |-> "RESET_TO_TRACKED"]
         ELSE IF ecs = 0 /\ sfn = 0
              THEN [reset_to |-> {0}, action |-> "RESET_TO_ZERO"]
              ELSE [reset_to |-> {}, action |-> "NONE"]
    ELSE [reset_to |-> {}, action |-> "NONE"]

\* Variant: the drift rule fires from counter = tracked + drift on.
DecideDriftInclusive(counter, tracked, ecs, sfn, drift) ==
    IF counter > 0
    THEN IF ecs = 0 /\ sfn = 0
         THEN [reset_to |-> {0}, action |-> "RESET_TO_ZERO"]
         ELSE IF counter >= tracked + drift
              THEN [reset_to |-> {Max(0, tracked)}, action |-> "RESET_TO_TRACKED"]
              ELSE [reset_to |-> {}, action |-> "NONE"]
    ELSE [reset_to |-> {}, action |-> "NONE"]

\* The decision of handler: what to reset the counter to ({} for None) and
\* the action tag.
Decide(counter, tracked, ecs, sfn, drift) ==
    IF counter > 0
    THEN IF ecs = 0 /\ sfn = 0
         THEN [reset_to |-> {0}, action |-> "RESET_TO_ZERO"]
         ELSE IF counter > tracked + drift
              THEN [reset_to |-> {Max(0, tracked)}, action |-> "RESET_TO_TRACKED"]
              ELSE IF counter < 0
                   THEN [reset_to |-> {0}, action |-> "RESET_NEGATIVE"]
                   ELSE [reset_to |-> {}, action |-> "NONE"]
    ELSE [reset_to |-> {}, action |-> "NONE"]

\* handler, with the reconciler switched off: return 'Disabled'.
RecDisabled ==
    /\ rec_pc = "idle"
    /\ action_taken' = "DISABLED"
    /\ UNCHANGED <<now, config, widget, max_drift, intake, pipeline, store, pc, locals, rec_pc, counter_value,
                   tracked_files, reset_to, observed, resets_published>>

\* handler: counter_value = get_current_counter_value().
RecReadCounter ==
    /\ rec_pc = "idle"
    /\ counter_value' = IfNotExists(in_flight, 0)
    /\ rec_pc' = "gather"
    /\ reset_to' = {}
    /\ action_taken' = "NONE"
    /\ resets_published' = 0
    /\ UNCHANGED <<now, config, widget, max_drift, intake, pipeline, store, pc, locals, tracked_files, observed>>

\* handler: the tracked rows and the orchestrator's signals are read and the
\* decision is taken.
RecDecide ==
    /\ rec_pc = "gather"
    /\ tracked_files' = TrackedFilesCount
    /\ \E ecs \in RunningEcsChoices, sfn \in RunningSfnChoices :
          LET d == Decide(counter_value, TrackedFilesCount, ecs, sfn,
                          max_drift) IN
          /\ running_ecs' = ecs
          /\ running_sfn' = sfn
          /\ reset_to' = d.reset_to
          /\ action_taken' = d.action
          /\ rec_pc' = IF d.reset_to # {} THEN "reset" ELSE "cleanup"
    /\ UNCHANGED <<now, config, widget, max_drift, intake, pipeline, store, pc, locals, counter_value,
                   resets_published>>

\* reset_counter(reset_to, reason): SET in_flight = :val, and then
\* publish_metric('ReconciliationResets', 1).
RecReset ==
    /\ rec_pc = "reset"
    /\ in_flight' = {Value(reset_to)}
    /\ resets_published' = resets_published + 1
    /\ rec_pc' = "cleanup"
    /\ UNCHANGED <<now, config, widget, max_drift, intake, pipeline, request_count, ttl, files, pc, locals,
                   counter_value, tracked_files, reset_to, action_taken,
                   observed>>

\* Variant: the filter without attribute_not_exists(released).
StaleRowsReleasedToo(t) ==
    { r \in Workers : /\ files[r] # {}
                      /\ Value(files[r]).started_at < t - StaleSeconds }

\* FilterExpression of cleanup_stale_file_entries at the time t.
StaleRows(t) ==
    { r \in Workers : /\ files[r] # {}
                      /\ ~Value(files[r]).released
                      /\ Value(files[r]).started_at < t - StaleSeconds }

\* handler returns: its locals are gone.
HandlerLocalsGone ==
    /\ counter_value' = 0
    /\ tracked_files' = 0
    /\ reset_to' = {}
    /\ action_taken' = "NONE"
    /\ running_ecs' = -1
    /\ running_sfn' = -1
    /\ resets_published' = 0

\* cleanup_stale_file_entries: the stale rows are marked released; then the
\* handler returns.
RecCleanup ==
    /\ rec_pc = "cleanup"
    /\ files' = [r \in Workers |->
                    IF r \in StaleRows(now)
                    THEN {[Value(files[r]) EXCEPT !.released = TRUE,
                                                  !.stale_cleanup = TRUE]}
                    ELSE files[r]]
    /\ rec_pc' = "idle"
    /\ HandlerLocalsGone
    /\ UNCHANGED <<now, config, widget, max_drift, intake, pipeline, counters, pc, locals>>

ReconcilerStep ==
    \/ RecDisabled
    \/ RecReadCounter
    \/ RecDecide
    \/ RecReset
    \/ RecCleanup

WorkerStep(w) ==
    \/ DirectAcquire(w)
    \/ EnterRateLimitedCall(w)
    \/ EnterRateLimitedAPICall(w)
    \/ Retry(w)
    \/ PhaseB(w)
    \/ Compensate(w)
    \/ \E how \in BodyEnds : ExitRateLimitedCall(w, how)
    \/ \E how \in BodyEnds : ExitRateLimitedAPICall(w, how)
    \/ DirectRelease(w)
    \/ UntrackScan(w)
    \/ UntrackMark(w)

Next ==
    \/ \E w \in Workers : WorkerStep(w)
    \/ Tick(TickSeconds)

Spec == Init /\ [][Next]_vars

\* Workers, one of which may release twice.
NextDouble ==
    \/ Next
    \/ \E w \in Workers : ReleaseAgain(w)

SpecDouble == Init /\ [][NextDouble]_vars

\* Workers and the reconciler.
NextRec ==
    \/ Next
    \/ ReconcilerStep

SpecRec == Init /\ [][NextRec]_vars

\* Two workers around the minute boundaries, the clock sampled every half
\* minute.
ScenarioWorkers == {1, 2}

NextFine ==
    \/ \E w \in ScenarioWorkers : WorkerStep(w)
    \/ FineTick

SpecFine == Init /\ [][NextFine]_vars

\* Workers whose calls of the store may fail.
NextErr ==
    \/ Next
    \/ \E w \in Workers : StoreError(w)

SpecErr == Init /\ [][NextErr]_vars

\* ------------------------------------------------ in-flight files widget
\* lambda_handler: the scan for the file_ rows without the released
\* attribute; len(files) is their number.
WidgetScan ==
    /\ widget.pc = "idle"
    /\ widget' = [widget EXCEPT !.pc = "read",
                                !.actual_file_count = TrackedFilesCount]
    /\ UNCHANGED <<now, config, intake, pipeline, store, pc, locals, reconciler>>

\* lambda_handler: raw_counter_value = int(counter_item.get('in_flight', 0)).
WidgetReadCounter ==
    /\ widget.pc = "read"
    /\ widget' = [widget EXCEPT !.pc = "reconcile",
                                !.raw_counter_value = IfNotExists(in_flight, 0)]
    /\ UNCHANGED <<now, config, intake, pipeline, store, pc, locals, reconciler>>

\* reconcile_counter_if_needed(table, len(files), raw_counter_value): when
\* counter_value > actual_file_count, SET in_flight = :count; then the
\* handler returns its HTML.
WidgetReconcile ==
    /\ widget.pc = "reconcile"
    /\ IF widget.raw_counter_value > widget.actual_file_count
       THEN in_flight' = {widget.actual_file_count}
       ELSE UNCHANGED in_flight
    /\ widget' = NoWidget
    /\ UNCHANGED <<now, config, intake, pipeline, request_count, ttl, files, pc, locals,
                   reconciler>>

WidgetStep ==
    \/ WidgetScan
    \/ WidgetReadCounter
    \/ WidgetReconcile

\* Workers, and the dashboard that loads the widget.
NextWidget ==
    \/ Next
    \/ WidgetStep

SpecWidget == Init /\ [][NextWidget]_vars

\* Scenario B: MAX_IN_FLIGHT = 10, MAX_RPM = 1 and two workers.

InitB ==
    /\ max_in_flight = 10
    /\ max_rpm = 1
    /\ Start

SpecB == InitB /\ [][NextFine]_vars

\* ------------------------------------------------- workers that die
\* The task of a worker that holds a slot is killed before release_slot.
WorkerDies(w) ==
    /\ pc[w] = "body"
    /\ acquired[w]
    /\ pc' = [pc EXCEPT ![w] = "dead"]
    /\ UNCHANGED <<now, config, widget, intake, pipeline, store, locals, reconciler>>

\* An invocation of the reconciler with /pdf-processing/reconciler-enabled on.
EnabledReconcilerStep ==
    \/ RecReadCounter
    \/ RecDecide
    \/ RecReset
    \/ RecCleanup

\* A worker that calls acquire_slot and release_slot itself.
DirectWorkerStep(w) ==
    \/ DirectAcquire(w)
    \/ Retry(w)
    \/ PhaseB(w)
    \/ Compensate(w)
    \/ DirectRelease(w)
    \/ UntrackScan(w)
    \/ UntrackMark(w)

NextLeak ==
    \/ \E w \in Workers : DirectWorkerStep(w)
    \/ \E w \in Workers : WorkerDies(w)
    \/ Tick(TickSeconds)
    \/ EnabledReconcilerStep

\* The reconciler is invoked again and again, and each invocation runs to
\* its end.
SpecLeak == Init /\ [][NextLeak]_vars /\ WF_vars(EnabledReconcilerStep)

\* ----------------------------------------- the reconciler on its own
\* What the reconciler can find in the table when no worker is writing:
\* a counter left too high by workers that died, or negative by releases
\* that had nothing to give back, and tracking rows released or not.
CounterChoices == {{}} \cup { {n} : n \in -1..NumWorkers }

RowChoices ==
    {{}} \cup { {[filename |-> fn, api_type |-> ty, started_at |-> 0,
                  released |-> r, stale_cleanup |-> FALSE]} :
                fn \in Filenames, ty \in ApiTypes, r \in BOOLEAN }

InitReconciler ==
    /\ max_in_flight \in MaxInFlightChoices
    /\ max_rpm \in MaxRpmChoices
    /\ in_flight \in CounterChoices
    /\ files \in [Workers -> RowChoices]
    /\ max_retries = MAX_RETRIES_DEFAULT
    /\ StartItems("queue")
    /\ StartIntake
    /\ max_drift \in MaxDriftChoices
    /\ StartCallers

SpecReconciler == InitReconciler /\ [][ReconcilerStep]_vars

\* get_current_counter_value: get_item raises ClientError, "return 0".
RecReadCounterFails ==
    /\ rec_pc = "idle"
    /\ counter_value' = 0
    /\ rec_pc' = "gather"
    /\ reset_to' = {}
    /\ action_taken' = "NONE"
    /\ resets_published' = 0
    /\ UNCHANGED <<now, config, widget, max_drift, intake, pipeline, store, pc, locals, tracked_files, observed>>

\* get_tracked_files_count: the scan raises ClientError, "return 0"; the
\* handler goes on to its decision with tracked_files = 0.
RecDecideScanFails ==
    /\ rec_pc = "gather"
    /\ tracked_files' = 0
    /\ \E ecs \in RunningEcsChoices, sfn \in RunningSfnChoices :
          LET d == Decide(counter_value, 0, ecs, sfn, max_drift) IN
          /\ running_ecs' = ecs
          /\ running_sfn' = sfn
          /\ reset_to' = d.reset_to
          /\ action_taken' = d.action
          /\ rec_pc' = IF d.reset_to # {} THEN "reset" ELSE "cleanup"
    /\ UNCHANGED <<now, config, widget, max_drift, intake, pipeline, store, pc, locals, counter_value,
                   resets_published>>

\* The reconciler on its own, with reads of the table that may fail.
NextReadFails ==
    \/ ReconcilerStep
    \/ RecReadCounterFails
    \/ RecDecideScanFails

SpecReadFails == InitReconciler /\ [][NextReadFails]_vars

\* The reconciler on a table with rows of any age: started long before the
\* invocation, exactly StaleSeconds before it, or at its time.
StartedAtChoices == {0 - (StaleSeconds + 1), 0 - StaleSeconds, 0}

AgedRowChoices ==
    {{}} \cup { {[filename |-> fn, api_type |-> ty, started_at |-> t,
                  released |-> r, stale_cleanup |-> FALSE]} :
                fn \in Filenames, ty \in ApiTypes, t \in StartedAtChoices,
                r \in BOOLEAN }

InitStale ==
    /\ max_in_flight \in MaxInFlightChoices
    /\ max_rpm \in MaxRpmChoices
    /\ in_flight \in CounterChoices
    /\ files \in [Workers -> AgedRowChoices]
    /\ max_retries = MAX_RETRIES_DEFAULT
    /\ StartItems("queue")
    /\ StartIntake
    /\ max_drift = DEFAULT_MAX_DRIFT
    /\ StartCallers

SpecStale == InitStale /\ [][ReconcilerStep]_vars

\* ------------------------------------ scenario A: a clock that runs on
\* The workers of scenario A enter by rate_limited_call, hold and release; their
\* max_wait does not expire, and the clock advances through the minutes
\* without end. Time is kept relative to an origin that moves on by one
\* minute whenever the clock reaches CycleSeconds, so that only the last
\* minutes' window rows are kept.
CycleSeconds == 3 * SecondsPerMinute

\* Backoff sleeps are all shorter than the half minute the clock is sampled
\* at; attempts from AttemptCap on are counted as AttemptCap.
AttemptCap == 2

TickCyclic ==
    LET t == now + (SecondsPerMinute \div 2)
        k == IF t >= CycleSeconds THEN 1 ELSE 0
        s == k * SecondsPerMinute
        kept(m) == (m + k) \in Windows /\ ttl[m + k] > t
    IN /\ now' = t - s
       /\ request_count' = [m \in Windows |->
                               IF kept(m) THEN request_count[m + k] ELSE {}]
       /\ ttl' = [m \in Windows |-> IF kept(m) THEN ttl[m + k] - s ELSE 0]
       \* a sleep that is over by now reads as over: wake_at 0
       /\ wake_at' = [w \in Workers |->
                         IF wake_at[w] <= t THEN 0 ELSE wake_at[w] - s]
       \* max_wait does not expire: no time of a running call is counted
       /\ start_time' = [w \in Workers |->
                            IF pc[w] \in {"idle", "exited"}
                            THEN start_time[w] ELSE t - s]
       \* a window that is over reads as the minute before the origin
       /\ window_id' = [w \in Workers |-> { Max(m - k, -1) : m \in window_id[w] }]
       /\ UNCHANGED <<config, widget, intake, pipeline, in_flight, files, pc, form, attempt,
                      max_wait_seconds, filename, api_type, acquired,
                      untrack_item, ghosts, reconciler>>

\* The sleep is over and the loop test is made: the next attempt, or the
\* timeout (which the premise on max_wait excludes).
RetryCapped(w) ==
    /\ pc[w] \in {"backoff", "wait_minute"}
    /\ now >= wake_at[w]
    /\ IF LoopCondition(now, start_time[w], max_wait_seconds[w])
       THEN PhaseA(w, Min(attempt[w] + 1, AttemptCap))
       ELSE TimedOut(w)
    /\ UNCHANGED args

WorkerStepA(w) ==
    \/ EnterRateLimitedCall(w)
    \/ RetryCapped(w)
    \/ PhaseB(w)
    \/ Compensate(w)
    \/ \E how \in BodyEnds : ExitRateLimitedCall(w, how)

NextA ==
    \/ \E w \in Workers : WorkerStepA(w)
    \/ TickCyclic

\* Fair scheduling: every worker that can take a step takes one, and the
\* clock advances.
FairnessA ==
    /\ WF_vars(TickCyclic)
    /\ \A w \in Workers : WF_vars(WorkerStepA(w))

SpecA == Init /\ [][NextA]_vars /\ FairnessA

\* ------------------------------------- the failure controller's retry ladder

\* The failure events one item is followed through.
MaxFailures == MaxRetriesBound + 1

MaxRetriesChoices == 0..MaxRetriesBound

\* get_retry_count: the retry-count metadata of the pdf/ object, 0 when the
\* object has none and 0 when head_object answers 404.
get_retry_count(objs) ==
    IF objs["pdf"] = {}
    THEN 0
    ELSE LET metadata == CHOOSE o \in objs["pdf"] : TRUE
         IN  IfNotExists(metadata.retry_count, 0)

\* A handler that sends an item to failed/ one failure later than the code.
MaxRetriesExceededStrict(count, max) == count > max

\* handler: "if retry_count >= max_retries".
MaxRetriesExceeded(count, max) == count >= max

\* A copy to queue/ that writes the count it was given.
CopyToQueueSameCount(objs, count) ==
    [objs EXCEPT !["queue"] = {[retry_count |-> {count}, exceeded |-> FALSE]}]

\* move_pdf_to_queue_folder, the copy_object call: the metadata is replaced,
\* retry-count is the count read plus one.
CopyToQueue(objs, count) ==
    [objs EXCEPT !["queue"] = {[retry_count |-> {count + 1}, exceeded |-> FALSE]}]

\* move_pdf_to_failed_folder, the copy_object call: the metadata is replaced,
\* retry-count is the count read, max-retries-exceeded is set.
CopyToFailed(objs, count) ==
    [objs EXCEPT !["failed"] = {[retry_count |-> {count}, exceeded |-> TRUE]}]

\* handler, up to the branch: an execution of the pdf/ object has failed; the
\* retry count is read from the object.
FcStart ==
    /\ fc_pc = "idle"
    /\ executing
    /\ failures < MaxFailures
    /\ executing' = FALSE
    /\ failures' = failures + 1
    /\ retry_count' = get_retry_count(objects)
    /\ action' = "NONE"
    /\ fc_pc' = "move"
    /\ UNCHANGED <<now, config, widget, intake, store, pc, locals, reconciler, temp_objects, max_retries,
                   objects, failure_records, sched_pc, source_prefix>>

\* handler, up to the branch, when head_object raises a ClientError other
\* than 404: get_retry_count logs a warning and returns 0.
FcStartHeadFails ==
    /\ fc_pc = "idle"
    /\ executing
    /\ failures < MaxFailures
    /\ executing' = FALSE
    /\ failures' = failures + 1
    /\ retry_count' = 0
    /\ action' = "NONE"
    /\ fc_pc' = "move"
    /\ UNCHANGED <<now, config, widget, intake, store, pc, locals, reconciler, temp_objects, max_retries,
                   objects, failure_records, sched_pc, source_prefix>>

\* The copy_object call of the move the branch chose succeeds.
FcCopy ==
    /\ fc_pc = "move"
    /\ objects["pdf"] # {}
    /\ objects' = IF MaxRetriesExceeded(retry_count, max_retries)
                  THEN CopyToFailed(objects, retry_count)
                  ELSE CopyToQueue(objects, retry_count)
    /\ fc_pc' = "delete"
    /\ UNCHANGED <<now, config, widget, intake, store, pc, locals, reconciler, temp_objects, max_retries,
                   executing, failures, failure_records, retry_count, action,
                   sched_pc, source_prefix>>

\* Variant: the handler returns as soon as the move has returned None.
FcCopyFailsReturns ==
    /\ fc_pc = "move"
    /\ fc_pc' = "idle"
    /\ retry_count' = 0
    /\ UNCHANGED <<now, config, widget, intake, store, pc, locals, reconciler, temp_objects, max_retries,
                   objects, executing, failures, failure_records, action,
                   sched_pc, source_prefix>>

\* The copy_object call raises ClientError: the move returns None.
FcCopyFails ==
    /\ fc_pc = "move"
    /\ action' = "MOVE_FAILED_LEFT_IN_PLACE"
    /\ fc_pc' = "record"
    /\ UNCHANGED <<now, config, widget, intake, store, pc, locals, reconciler, temp_objects, max_retries,
                   objects, executing, failures, failure_records, retry_count,
                   sched_pc, source_prefix>>

\* The delete_object call of the move succeeds: the move returns the new key.
FcDelete ==
    /\ fc_pc = "delete"
    /\ objects' = [objects EXCEPT !["pdf"] = {}]
    /\ action' = IF MaxRetriesExceeded(retry_count, max_retries)
                 THEN "MOVED_TO_FAILED"
                 ELSE "MOVED_TO_QUEUE"
    /\ fc_pc' = "record"
    /\ UNCHANGED <<now, config, widget, intake, store, pc, locals, reconciler, temp_objects, max_retries,
                   executing, failures, failure_records, retry_count, sched_pc,
                   source_prefix>>

\* The delete_object call raises ClientError after the copy was made: the move
\* returns None.
FcDeleteFails ==
    /\ fc_pc = "delete"
    /\ action' = "MOVE_FAILED_LEFT_IN_PLACE"
    /\ fc_pc' = "record"
    /\ UNCHANGED <<now, config, widget, intake, store, pc, locals, reconciler, temp_objects, max_retries,
                   objects, executing, failures, failure_records, retry_count,
                   sched_pc, source_prefix>>

\* delete_temp_folder empties the item's temp/ folder, store_failure_record
\* puts one row, and the handler returns.
FcRecord ==
    /\ fc_pc = "record"
    /\ failure_records' = failure_records + 1
    /\ fc_pc' = "idle"
    /\ retry_count' = 0
    /\ action' = "NONE"
    /\ temp_objects' = 0
    /\ UNCHANGED <<now, config, widget, intake, store, pc, locals, reconciler, max_retries,
                   objects, executing, failures, sched_pc, source_prefix>>

\* delete_temp_folder, then store_failure_record: put_item raises
\* ClientError, which is logged only.
FcRecordFails ==
    /\ fc_pc = "record"
    /\ fc_pc' = "idle"
    /\ retry_count' = 0
    /\ action' = "NONE"
    /\ temp_objects' = 0
    /\ UNCHANGED <<now, config, widget, intake, store, pc, locals, reconciler, max_retries,
                   objects, executing, failures, failure_records, sched_pc,
                   source_prefix>>

\* ------------------------------------------------------- intake admission

\* The prefixes move_file_to_pdf_folder is called with.
SourcePrefixes == {"queue", "retry"}

\* move_file_to_pdf_folder, the copy_object call: no MetadataDirective, so the
\* metadata goes with the object; the object created under pdf/ starts an
\* execution, which writes its chunks under temp/.
AdmitCopy(prefix) ==
    /\ sched_pc = "idle"
    /\ objects[prefix] # {}
    /\ objects' = [objects EXCEPT !["pdf"] = objects[prefix]]
    /\ executing' = TRUE
    /\ source_prefix' = prefix
    /\ sched_pc' = "delete"
    /\ temp_objects' = 1
    /\ UNCHANGED <<now, config, widget, intake, store, pc, locals, reconciler, max_retries,
                   failures, failure_records, fc_pc, retry_count, action>>

\* The copy_object call raises ClientError: the file stays where it was.
AdmitCopyFails(prefix) ==
    /\ sched_pc = "idle"
    /\ objects[prefix] # {}
    /\ source_prefix' = prefix
    /\ UNCHANGED <<now, config, widget, intake, store, pc, locals, reconciler, temp_objects, max_retries,
                   objects, executing, failures, failure_records, fc_pc,
                   retry_count, action, sched_pc>>

\* The delete_object call succeeds.
AdmitDelete ==
    /\ sched_pc = "delete"
    /\ objects' = [objects EXCEPT ![source_prefix] = {}]
    /\ sched_pc' = "idle"
    /\ UNCHANGED <<now, config, widget, intake, store, pc, locals, reconciler, temp_objects, max_retries,
                   executing, failures, failure_records, fc_pc, retry_count,
                   action, source_prefix>>

\* The delete_object call raises ClientError after the copy was made.
AdmitDeleteFails ==
    /\ sched_pc = "delete"
    /\ sched_pc' = "idle"
    /\ UNCHANGED <<now, config, widget, intake, store, pc, locals, reconciler, temp_objects, max_retries,
                   objects, executing, failures, failure_records, fc_pc,
                   retry_count, action, source_prefix>>

\* One item waits under queue/ or retry/; MAX_RETRIES is any of the choices.
InitItems ==
    /\ max_in_flight \in MaxInFlightChoices
    /\ max_rpm \in MaxRpmChoices
    /\ in_flight = {}
    /\ files = [w \in Workers |-> {}]
    /\ max_retries \in MaxRetriesChoices
    /\ \E a \in SourcePrefixes : StartItems(a)
    /\ StartIntake
    /\ max_drift = DEFAULT_MAX_DRIFT
    /\ StartCallers

\* Every call succeeds but the copy_object of the failure controller's move,
\* which may raise.
NextCopyFails ==
    \/ \E prefix \in SourcePrefixes : AdmitCopy(prefix)
    \/ AdmitDelete
    \/ FcStart
    \/ FcCopy
    \/ FcCopyFails
    \/ FcDelete
    \/ FcRecord

SpecCopyFails == InitItems /\ [][NextCopyFails]_vars

\* Every S3 call and every put_item succeeds.
NextLadder ==
    \/ \E prefix \in SourcePrefixes : AdmitCopy(prefix)
    \/ AdmitDelete
    \/ FcStart
    \/ FcCopy
    \/ FcDelete
    \/ FcRecord

SpecLadder == InitItems /\ [][NextLadder]_vars

\* Every copy, delete and put_item succeeds; the head_object of
\* get_retry_count may raise.
NextHeadFails ==
    \/ NextLadder
    \/ FcStartHeadFails

SpecHeadFails == InitItems /\ [][NextHeadFails]_vars

\* Any copy_object, delete_object or put_item may raise ClientError.
NextItems ==
    \/ NextLadder
    \/ \E prefix \in SourcePrefixes : AdmitCopyFails(prefix)
    \/ AdmitDeleteFails
    \/ FcCopyFails
    \/ FcDeleteFails
    \/ FcRecordFails

SpecItems == InitItems /\ [][NextItems]_vars

\* ------------------------------------ pdf-retry-processor: the handler

\* batch_size and batch_size_low the SSM parameters take.
BatchChoices == 1..MaxBatch

\* What get_running_executions_count returns: the length of the RUNNING list,
\* or 999 when the list could not be read.
RunningChoices == {0, DEFAULT_MAX_EXECUTIONS, 999}

\* in_flight an invocation may find in the table.
InFlightChoices ==
    {{}, {LowLoadInFlight}, {DEFAULT_MAX_IN_FLIGHT}, {DEFAULT_MAX_IN_FLIGHT + 1}}

\* backoff_until an invocation may find: no row, a time not after now, a time
\* after now.
BackoffChoices == {{}, {0}, {30}}

\* LastModified of the waiting files.
ModifiedChoices == {1, 2}

\* A handler without the backoff check.
NoBackoffRemaining(row, t) == 0

\* get_global_backoff_remaining: max(0, backoff_until - now), 0 without a row.
get_global_backoff_remaining(row, t) ==
    IF row = {} THEN 0 ELSE Max(0, Value(row) - t)

\* get_current_in_flight.
get_current_in_flight == IfNotExists(in_flight, 0)

\* A capacity test that lets the threshold itself through.
AboveThreshold(value, threshold) == value > threshold

\* handler: "if in_flight >= config['max_in_flight']" and
\* "if running_executions >= config['max_executions']".
AtThreshold(value, threshold) == value >= threshold

\* handler: "if len(processed_files) >= files_per_batch: break".
BatchFull(s) == Cardinality(s.processed_files) >= s.files_per_batch

\* The position of a sub-path in the listing order.
Rank(path) == CHOOSE n \in DOMAIN Paths : Paths[n] = path

\* Variant: the listing is left in the order of its keys.
RECURSIVE SortByKey(_, _)
SortByKey(b, todo) ==
    IF todo = {}
    THEN <<>>
    ELSE LET first == CHOOSE k \in todo : \A other \in todo :
                          Rank(k[2]) <= Rank(other[2])
         IN  <<first[2]>> \o SortByKey(b, todo \ {first})

\* pdf_files.sort(key=last_modified): a stable sort of the listing.
RECURSIVE SortByLastModified(_, _)
SortByLastModified(b, todo) ==
    IF todo = {}
    THEN <<>>
    ELSE LET first == CHOOSE k \in todo : \A other \in todo :
                          \/ Value(b[k]).last_modified < Value(b[other]).last_modified
                          \/ /\ Value(b[k]).last_modified = Value(b[other]).last_modified
                             /\ Rank(k[2]) <= Rank(other[2])
         IN  <<first[2]>> \o SortByLastModified(b, todo \ {first})

\* list_pdf_files: the sub-paths under the prefix, oldest first, at most
\* max_files of them.
list_pdf_files(b, prefix, max_files) ==
    LET found == { k \in Keys : k[1] = prefix /\ b[k] # {} }
        sorted == SortByLastModified(b, found)
    IN  SubSeq(sorted, 1, Min(max_files, Len(sorted)))

\* 'last_modified' of the entries of a listing of the prefix, by sub-path.
ListedModified(b, prefix, listed) ==
    [path \in PathSet |->
        IF \E n \in DOMAIN listed : listed[n] = path
        THEN Value(b[<<prefix, path>>]).last_modified
        ELSE 0]

\* The file the loop is at, as the loop has it: prefix, sub-path and
\* 'last_modified'.
Attempt(s) == <<s.source_prefix, Head(s.list), s.last_modified[Head(s.list)]>>

\* handler, "return" with action SKIPPED.
Skipped(s, why, n) ==
    [s EXCEPT !.pc = "done", !.action = "SKIPPED", !.reason = <<why, n>>]

\* handler, the final "return".
Returned200(s) ==
    [s EXCEPT !.pc = "done",
              !.action = IF s.processed_files # {} THEN "PROCESSED" ELSE "NO_FILES"]

\* handler, from its start to the listing of retry/: the backoff check, the
\* capacity check and the choice of the batch size.
SchedInvoke(i, running) ==
    /\ sched[i].pc = "idle"
    /\ LET remaining == get_global_backoff_remaining(backoff_row, now)
           s == [sched[i] EXCEPT !.backoff_remaining = remaining]
           t == [s EXCEPT !.in_flight = get_current_in_flight,
                          !.running_executions = running]
           files_per_batch ==
               IF running < LowLoadExecutions /\ t.in_flight < LowLoadInFlight
               THEN queue_config.batch_size_low
               ELSE queue_config.batch_size
       IN  sched' = [sched EXCEPT ![i] =
               IF remaining > 0
               THEN Skipped(s, "Global backoff active", remaining)
               ELSE IF AtThreshold(t.in_flight, queue_config.max_in_flight)
               THEN Skipped(t, "In-flight count above threshold", t.in_flight)
               ELSE IF AtThreshold(running, queue_config.max_executions)
               THEN Skipped(t, "Running executions above threshold", running)
               ELSE LET retry_files == list_pdf_files(bucket, "retry",
                                                      files_per_batch)
                    IN  [t EXCEPT !.pc = "copy",
                                  !.files_per_batch = files_per_batch,
                                  !.source_prefix = "retry",
                                  !.list = retry_files,
                                  !.last_modified =
                                      ListedModified(bucket, "retry",
                                                     retry_files)]]
    /\ UNCHANGED <<now, config, widget, pipeline, store, pc, locals, reconciler,
                   backoff_row, queue_config, bucket>>

\* handler: a loop over the listed files ends. After the retry/ loop queue/
\* is listed if the batch is not full.
SchedLoopEnds(i) ==
    /\ sched[i].pc = "copy"
    /\ sched[i].list = <<>> \/ BatchFull(sched[i])
    /\ LET s == sched[i]
           remaining_capacity == s.files_per_batch - Cardinality(s.processed_files)
       IN  sched' = [sched EXCEPT ![i] =
               IF s.source_prefix = "retry" /\ remaining_capacity > 0
               THEN LET queue_files ==
                            list_pdf_files(bucket, "queue",
                                           remaining_capacity + QueueListExtra)
                    IN  [s EXCEPT !.source_prefix = "queue",
                                  !.list = queue_files,
                                  !.last_modified =
                                      ListedModified(bucket, "queue",
                                                     queue_files)]
               ELSE Returned200([s EXCEPT !.list = <<>>])]
    /\ UNCHANGED <<now, config, widget, pipeline, store, pc, locals, reconciler,
                   backoff_row, queue_config, bucket>>

\* move_file_to_pdf_folder for the next listed file: copy_object succeeds and
\* puts the body of the source object under the pdf key, whatever is there.
SchedCopy(i) ==
    /\ sched[i].pc = "copy"
    /\ sched[i].list # <<>>
    /\ ~BatchFull(sched[i])
    /\ LET source_key == <<sched[i].source_prefix, Head(sched[i].list)>>
           pdf_key == <<"pdf", Head(sched[i].list)>>
       IN  /\ bucket[source_key] # {}
           /\ bucket' = [bucket EXCEPT ![pdf_key] =
                             {[last_modified |-> now,
                               body |-> Value(bucket[source_key]).body]}]
    /\ sched' = [sched EXCEPT ![i].pc = "delete", ![i].copied = @ + 1,
                              ![i].attempted = Append(@, Attempt(sched[i]))]
    /\ UNCHANGED <<now, config, widget, pipeline, store, pc, locals, reconciler,
                   backoff_row, queue_config>>

\* copy_object raises ClientError, as it does when the source key is gone:
\* the move returns None and the loop goes on with the next file.
SchedCopyFails(i) ==
    /\ sched[i].pc = "copy"
    /\ sched[i].list # <<>>
    /\ ~BatchFull(sched[i])
    /\ sched' = [sched EXCEPT ![i].list = Tail(@),
                              ![i].attempted = Append(@, Attempt(sched[i]))]
    /\ UNCHANGED <<now, config, widget, pipeline, store, pc, locals, reconciler,
                   backoff_row, queue_config, bucket>>

\* delete_object succeeds (also on a key that is gone): the move returns the
\* pdf key and the file is appended to processed_files.
SchedDelete(i) ==
    /\ sched[i].pc = "delete"
    /\ LET source_key == <<sched[i].source_prefix, Head(sched[i].list)>>
       IN  /\ bucket' = [bucket EXCEPT ![source_key] = {}]
           /\ sched' = [sched EXCEPT ![i].pc = "copy",
                                     ![i].list = Tail(@),
                                     ![i].processed_files = @ \cup {source_key}]
    /\ UNCHANGED <<now, config, widget, pipeline, store, pc, locals, reconciler,
                   backoff_row, queue_config>>

\* delete_object raises ClientError after the copy: the move returns None.
SchedDeleteFails(i) ==
    /\ sched[i].pc = "delete"
    /\ sched' = [sched EXCEPT ![i].pc = "copy", ![i].list = Tail(@)]
    /\ UNCHANGED <<now, config, widget, pipeline, store, pc, locals, reconciler,
                   backoff_row, queue_config, bucket>>

\* Files wait under retry/ and queue/, the table holds some in_flight and
\* maybe a backoff row, the batch sizes are any of the choices.
InitIntake ==
    /\ max_in_flight = 1
    /\ max_rpm = 1
    /\ in_flight \in InFlightChoices
    /\ files = [w \in Workers |-> {}]
    /\ max_retries = MAX_RETRIES_DEFAULT
    /\ StartItems("queue")
    /\ backoff_row \in BackoffChoices
    /\ \E small \in BatchChoices, low \in BatchChoices :
           queue_config = [max_in_flight |-> DEFAULT_MAX_IN_FLIGHT,
                           max_executions |-> DEFAULT_MAX_EXECUTIONS,
                           batch_size |-> small, batch_size_low |-> low]
    /\ \E waiting \in [Keys -> {{}} \cup { {m} : m \in ModifiedChoices }] :
           bucket = [k \in Keys |->
                        { [last_modified |-> m, body |-> k] : m \in waiting[k] }]
    /\ \A k \in Keys : k[1] = "pdf" => bucket[k] = {}
    /\ sched = [i \in Schedulers |-> NotInvoked]
    /\ max_drift = DEFAULT_MAX_DRIFT
    /\ StartCallers

SchedulerStep(i) ==
    \/ \E running \in RunningChoices : SchedInvoke(i, running)
    \/ SchedLoopEnds(i)
    \/ SchedCopy(i)
    \/ SchedCopyFails(i)
    \/ SchedDelete(i)
    \/ SchedDeleteFails(i)

\* One invocation; any copy_object or delete_object may raise ClientError.
NextIntake == SchedulerStep(1)

SpecIntake == InitIntake /\ [][NextIntake]_vars

\* ------------------------------------------- two overlapping invocations

\* copy_object raises NoSuchKey because the source key is gone.
SchedCopyNoSuchKey(i) ==
    /\ SchedCopyFails(i)
    /\ bucket[<<sched[i].source_prefix, Head(sched[i].list)>>] = {}

\* No backoff, an empty table, files of one age.
InitOverlap ==
    /\ InitIntake
    /\ in_flight = {}
    /\ backoff_row = {}
    /\ \A k \in Keys : \A o \in bucket[k] : o.last_modified = 1

\* S3 fails a call only where the key asked for is gone.
OverlapStep(i) ==
    \/ SchedInvoke(i, 0)
    \/ SchedLoopEnds(i)
    \/ SchedCopy(i)
    \/ SchedCopyNoSuchKey(i)
    \/ SchedDelete(i)

NextOverlap == \E i \in Schedulers : OverlapStep(i)

SpecOverlap == InitOverlap /\ [][NextOverlap]_vars

\* ================================================================ claims
ScopedForms == {"rate_limited_call", "RateLimitedAPICall"}

\* Sum of slot over the workers of S.
RECURSIVE SlotsOf(_)
SlotsOf(S) ==
    IF S = {} THEN 0
    ELSE LET w == CHOOSE x \in S : TRUE IN slot[w] + SlotsOf(S \ {w})

\* acquire_slot has returned to worker w and the caller has not moved on.
Returned(w) == pc[w] = "body"

\* C1: under any interleaving of acquires and releases the stored in_flight
\* never exceeds MAX_IN_FLIGHT.
C1_InFlightWithinMax ==
    in_flight = {} \/ Value(in_flight) <= max_in_flight

C1_Witness ==
    /\ in_flight = {max_in_flight}
    /\ \E w \in Workers : Returned(w) /\ acquired[w]
    /\ \E w \in Workers : pc[w] = "backoff"

\* C2: the request_count of every minute window never exceeds MAX_RPM.
C2_RequestCountWithinMax ==
    \A m \in Windows : request_count[m] = {} \/ Value(request_count[m]) <= max_rpm

C2_Witness ==
    /\ \E m \in Windows : request_count[m] = {max_rpm}
    /\ \E w \in Workers : pc[w] = "wait_minute"

\* C3: a scoped form that has exited has called release_slot exactly once
\* when acquire_slot returned True and not at all when it returned False,
\* however the body ended; before the exit it has not called it.
C3_ScopedReleaseOnce ==
    \A w \in Workers :
        form[w] \in ScopedForms =>
            IF pc[w] = "exited"
            THEN releases[w] = (IF acquired[w] THEN 1 ELSE 0)
            ELSE releases[w] = 0

C3_Witness ==
    /\ \E w \in Workers :
          form[w] \in ScopedForms /\ pc[w] = "exited" /\ acquired[w] /\ releases[w] = 1
    /\ \E w \in Workers :
          form[w] \in ScopedForms /\ pc[w] = "exited" /\ ~acquired[w] /\ releases[w] = 0

BothReturned ==
    /\ \A w \in ScenarioWorkers : Returned(w) /\ attempt[w] >= 1
    /\ \A v, w \in ScenarioWorkers :
          start_time[v] \div SecondsPerMinute = start_time[w] \div SecondsPerMinute

C6_DoubleReleaseClamped ==
    (\E w \in Workers : releases[w] = 2) =>
        (in_flight = {} \/ Value(in_flight) >= 0)

\* C7: under any interleaving of acquires, releases (one per acquisition) and
\* reconciler runs the stored in_flight is never negative.
C7_NonNegative ==
    in_flight = {} \/ Value(in_flight) >= 0

\* C8: an attempt at Phase A made while in_flight is MAX_IN_FLIGHT - 1 takes
\* the last slot, and every attempt made while in_flight is MAX_IN_FLIGHT
\* fails, leaves the counter alone and goes to backoff.
C8_OneWinnerAtLastSlot ==
    [][ \A w \in Workers :
           attempt'[w] = attempt[w] + 1 =>
              /\ IfNotExists(in_flight, 0) = max_in_flight - 1 =>
                    (pc'[w] = "phaseB" /\ in_flight' = {max_in_flight})
              /\ IfNotExists(in_flight, 0) >= max_in_flight =>
                    (pc'[w] = "backoff" /\ in_flight' = in_flight) ]_vars

C8_Witness ==
    /\ in_flight = {max_in_flight}
    /\ \E w \in Workers : pc[w] = "backoff" /\ passed_a[w] = 0
    /\ \E w \in Workers : pc[w] \in {"phaseB", "body"} /\ slot[w] = 1

\* C9: a successful acquire adds exactly 1 to the request_count of the window
\* of the minute its Phase B ran in and leaves every other window's row as
\* it was, and no step lowers a request_count.
C9_OneWindowCharged ==
    [][ /\ \A w \in Workers :
             (pc[w] = "phaseB" /\ pc'[w] = "body") =>
                 LET m == now \div SecondsPerMinute IN
                 /\ request_count'[m] = {IfNotExists(request_count[m], 0) + 1}
                 /\ \A k \in Windows \ {m} : request_count'[k] = request_count[k]
        /\ \A m \in Windows :
             (request_count[m] # {} /\ request_count'[m] # {}) =>
                 Value(request_count'[m]) >= Value(request_count[m]) ]_vars

C9_Witness ==
    /\ request_count[0] = {max_rpm}
    /\ request_count[1] # {}
    /\ \E w \in Workers : Returned(w) /\ acquired[w] /\ attempt[w] >= 2

\* C10: a call of acquire_slot with max_wait_seconds = 0 that has returned
\* made one attempt.
C10_OneAttemptAtZeroWait ==
    \A w \in Workers :
        (Returned(w) /\ max_wait_seconds[w] = 0) => attempt[w] = 1

\* C11: with more workers than slots, each acquiring, holding and releasing
\* under fair scheduling while the clock runs on and max_wait does not
\* expire, every worker eventually acquires, and in_flight and every
\* minute's request_count stay within their limits throughout.
C11_AllEventuallyAcquire ==
    /\ [](in_flight = {} \/ Value(in_flight) <= max_in_flight)
    /\ [](\A m \in Windows :
             request_count[m] = {} \/ Value(request_count[m]) <= max_rpm)
    /\ \A w \in Workers : <>acquired[w]

C11_Witness ==
    /\ \E w \in Workers : Returned(w) /\ acquired[w] /\ attempt[w] >= 2
    /\ \A w \in Workers : acquired[w]

\* C12: the body guarded by rate_limited_call, entered without looking at
\* the yielded value, only runs while its scope holds an in-flight slot.
C12_BodyOnlyWithSlot ==
    \A w \in Workers :
        (form[w] = "rate_limited_call" /\ pc[w] = "body") =>
            (acquired[w] /\ slot[w] = 1)

\* The handler has decided and reset; what is left is the stale-row cleanup
\* and the return.
ReconcilerDone == rec_pc = "cleanup"

\* C13: when a reconciler invocation that ran with no concurrent writer is
\* done, in_flight is what it was before the invocation, or 0, or a value
\* not above the tracked-row count the reconciler read.
C13_ReconcilerOutcome ==
    ReconcilerDone =>
        \/ IfNotExists(in_flight, 0) = counter_value
        \/ in_flight = {0}
        \/ in_flight # {} /\ Value(in_flight) <= tracked_files

C13_Witness ==
    /\ ReconcilerDone
    /\ action_taken = "RESET_TO_TRACKED"
    /\ tracked_files >= 1
    /\ counter_value > tracked_files
    /\ in_flight = {tracked_files}

C15_NegativeReset ==
    (ReconcilerDone /\ counter_value < 0) => in_flight = {0}

\* Workers that died holding a slot.
Leaked == { w \in Workers : pc[w] = "dead" }

\* C16: once a worker has died holding a slot, periodic reconciler
\* invocations lead to an in_flight that no longer counts the dead workers'
\* slots.
C16_LeakReclaimed ==
    (Leaked # {}) ~> (IfNotExists(in_flight, 0) <= SlotsOf(Workers \ Leaked))

Quiescent == fc_pc = "idle" /\ sched_pc = "idle"

\* The prefixes the item has an object under.
Holding == { a \in Areas : objects[a] # {} }

\* C19: when no move is under way and the item has failed k >= 1 times, the
\* one object it has carries retry-count = k, under failed/ as well.
C19_RetryCountIsCycles ==
    (Quiescent /\ failures >= 1 /\ Cardinality(Holding) = 1)
    => \A a \in Holding : \A o \in objects[a] : o.retry_count = {failures}

\* C20: when no move is under way, copy and delete failures included, the
\* item has an object under exactly one prefix.
C20_ExactlyOneArea ==
    Quiescent => Cardinality(Holding) = 1

\* The backoff row holds a time later than now.
BackoffActive == backoff_row # {} /\ Value(backoff_row) > now

\* The invocation went past the capacity check.
Admitting(s) == s.pc # "idle" /\ s.action # "SKIPPED"

\* What the invocation reports as moved stays within the batch size it chose,
\* batch_size_low under low load and batch_size otherwise.
ReportedWithinBatch ==
    \A i \in Schedulers :
        Admitting(sched[i])
        => /\ sched[i].files_per_batch =
                  IF /\ sched[i].running_executions < LowLoadExecutions
                     /\ sched[i].in_flight < LowLoadInFlight
                  THEN queue_config.batch_size_low
                  ELSE queue_config.batch_size
           /\ Cardinality(sched[i].processed_files) <= sched[i].files_per_batch

\* C21: the files an invocation has put under pdf/, from retry/ and queue/
\* together, are never more than the batch size it chose.
C21_BatchBound ==
    \A i \in Schedulers :
        Admitting(sched[i]) => sched[i].copied <= sched[i].files_per_batch

C24_AcceptedOnce ==
    sched[1].processed_files \cap sched[2].processed_files = {}

\* C25: a worker whose Phase B failed in the minute m, and whose in-flight
\* slot was given back, begins its next Phase A in a later minute than m.
C25_NextPhaseAInLaterMinute ==
    [][\A w \in Workers :
          (pc[w] = "wait_minute" /\ pc'[w] # "wait_minute")
          => \A m \in window_id[w] : CurrentMinuteWindow(now) > m]_vars

C28_NoRowLeftUnreleased ==
    (\A w \in Workers : pc[w] = "exited")
    => \A r \in Workers : files[r] # {} => Value(files[r]).released

C30_OnlyReconcilerOverwrites ==
    [][in_flight' # in_flight
       => \/ \E w \in Workers : pc'[w] # pc[w] \/ releases'[w] # releases[w]
          \/ rec_pc = "reset" /\ rec_pc' = "cleanup"]_vars

C32_RetryGoesToRetryArea ==
    (fc_pc = "record" /\ action = "MOVED_TO_QUEUE") => objects["retry"] # {}

RetryFilesOf(s) ==
    { k \in Keys : k[1] = "retry" /\ (bucket[k] # {} \/ k \in s.processed_files) }

AttemptedKeys(s) ==
    { <<s.attempted[n][1], s.attempted[n][2]>> : n \in DOMAIN s.attempted }

C35_FailedMoveStopsAdmission ==
    \A i \in Schedulers :
        LET s == sched[i]
            key(n) == <<s.attempted[n][1], s.attempted[n][2]>>
        IN  \A n, m \in DOMAIN s.attempted :
               (n < m /\ key(n) \notin s.processed_files)
               => /\ bucket[key(n)] # {}
                  /\ key(m) \notin s.processed_files

\* The workers between an acquire_slot that returned True and their release.
SlotHolders == { w \in Workers : Returned(w) /\ acquired[w] }

\* C36: at most MAX_IN_FLIGHT workers are between a successful acquire and
\* its release.
C36_HoldersWithinMax == Cardinality(SlotHolders) <= max_in_flight

\* The workers that have passed Phase A and have not finished Phase B or the
\* compensation that follows its failure.
BetweenPhases == { w \in Workers : pc[w] \in {"phaseB", "compensate"} }

\* C37: the stored in_flight is the number of workers that hold a slot plus
\* the number of workers between Phase A and the end of Phase B or of its
\* compensation.
C37_InFlightCountsHolders ==
    IfNotExists(in_flight, 0) = Cardinality(SlotHolders) + Cardinality(BetweenPhases)

C37_Witness ==
    /\ in_flight = {2}
    /\ \E w \in Workers : Returned(w) /\ acquired[w] /\ releases[w] = 0
    /\ \E w \in Workers : pc[w] = "compensate"

\* C38: a reconciler that is about to reset in_flight holds the counter and
\* the tracked-row count that are in the table: no reset follows a read
\* that failed and was taken as zero.
C38_FailedReadNoReset ==
    rec_pc = "reset"
    => /\ counter_value = IfNotExists(in_flight, 0)
       /\ tracked_files = TrackedFilesCount

\* The bodies stored under the keys of a bucket.
Bodies(b) == { o.body : o \in UNION { b[k] : k \in Keys } }

\* C39: no move destroys a different item: no step of the scheduler leaves a
\* file that was stored in the bucket without an object under any key, so a
\* copy onto pdf/<path> never replaces the only object of another file.
C39_NoMoveDestroysAnItem ==
    [][Bodies(bucket) \subseteq Bodies(bucket')]_vars

\* The retry-count an object carries, 0 when it has no such metadata.
Carried(objs) == IfNotExists(Value(objs).retry_count, 0)

\* C40: whenever the failure controller copies the item back to queue/, the
\* retry-count written on the copy is strictly greater than the retry-count
\* the pdf/ object carried, also when reading that retry-count failed.
C40_RetryCountGrows ==
    [][(/\ fc_pc = "move" /\ fc_pc' = "delete"
        /\ ~MaxRetriesExceeded(retry_count, max_retries))
       => Carried(objects'["queue"]) > Carried(objects["pdf"])]_vars


====
